---- MODULE Spec2Model ----
(***************************************************************************)
(* daw-control: the main-process IPC handlers (src/main/ipc-handlers.js)   *)
(* and the git wrapper they call (src/main/git-handler.js), as a state     *)
(* machine.  Every `await` of the code is a step boundary: a request       *)
(* advances by one external command (git, fs, dialog) per action, and      *)
(* requests interleave at those boundaries exactly as promises do on the   *)
(* Node event loop.  Strings the code cuts, trims, splits or interpolates  *)
(* are sequences of characters (or of literal chunks without special       *)
(* characters), so that those conversions are computed, not assumed.       *)
(***************************************************************************)
EXTENDS Integers, Sequences, FiniteSets, TLC

(* ------------------------------ bounds -------------------------------- *)

\* total number of IPC requests invoked in one behaviour
MaxOps == 3

\* total number of external modifications of project files in one behaviour
MaxEdits == 1

\* total number of commands that fail although they could have succeeded
\* (disk full, spawn error, ...) in one behaviour
MaxFailures == 1

\* length of a commit identifier (git prints 40 hex digits; any length > ShortLen
\* exercises the same prefix cut)
HashLen == 8

\* largest small limit getCommitHistory is asked with (besides the default)
MaxLimit == 4

(* -------------------------- program constants ------------------------- *)

\* commitHash.substring(0, 7)
ShortLen == 7

\* line.substring(3) in checkWorkingDirectoryStatus
StatusPrefixLen == 3

(* ------------------------------ strings ------------------------------- *)

\* String.prototype.substring(0, n)
Prefix(s, n) == SubSeq(s, 1, IF Len(s) < n THEN Len(s) ELSE n)

\* String.prototype.substring(n)
DropFirst(s, n) == SubSeq(s, n + 1, Len(s))

Whitespace == {" ", "\n", "\t"}

RECURSIVE TrimLeft(_)
TrimLeft(s) ==
  IF s # <<>> /\ Head(s) \in Whitespace THEN TrimLeft(Tail(s)) ELSE s

RECURSIVE TrimRight(_)
TrimRight(s) ==
  IF s # <<>> /\ s[Len(s)] \in Whitespace
    THEN TrimRight(SubSeq(s, 1, Len(s) - 1))
    ELSE s

\* String.prototype.trim()
Trim(s) == TrimRight(TrimLeft(s))

\* String.prototype.split(d): the pieces between the occurrences of d
RECURSIVE SplitAcc(_, _, _)
SplitAcc(s, d, cur) ==
  IF s = <<>> THEN <<cur>>
  ELSE IF Head(s) = d THEN <<cur>> \o SplitAcc(Tail(s), d, <<>>)
  ELSE SplitAcc(Tail(s), d, Append(cur, Head(s)))

Split(s, d) == SplitAcc(s, d, <<>>)

RECURSIVE Concat(_)
Concat(ss) == IF ss = <<>> THEN <<>> ELSE Head(ss) \o Concat(Tail(ss))

RECURSIVE CountOf(_, _)
CountOf(s, c) ==
  IF s = <<>> THEN 0
  ELSE (IF Head(s) = c THEN 1 ELSE 0) + CountOf(Tail(s), c)

RECURSIVE Without(_, _)
Without(s, c) ==
  IF s = <<>> THEN <<>>
  ELSE (IF Head(s) = c THEN <<>> ELSE <<Head(s)>>) \o Without(Tail(s), c)

(* ------------------------- files and folders -------------------------- *)

GITATTRIBUTES == <<".", "g", "i", "t", "a", "t", "t", "r", "i", "b", "u", "t", "e", "s">>
GITIGNORE == <<".", "g", "i", "t", "i", "g", "n", "o", "r", "e">>
WAV == <<"k", ".", "w", "a", "v">>
ALS == <<"s", ".", "A", "l", "s">>

\* the paths of a project folder, in the order git status lists them
FileOrder == <<GITATTRIBUTES, GITIGNORE, WAV, ALS>>

Files == {FileOrder[i] : i \in 1..Len(FileOrder)}

\* the files the user's DAW writes
UserFiles == {WAV, ALS}

\* "p" and "q" hold a Live set, "x" holds audio only
Folders == {"p", "q", "x"}

NoContent == [f \in Files |-> 0]

InitialTree(p) ==
  [f \in Files |-> IF f = ALS /\ p # "x" THEN 1
                   ELSE IF f = WAV /\ p = "x" THEN 1
                   ELSE 0]

(* --------------------------- path.extname ----------------------------- *)

RECURSIVE LastIndexOf(_, _)
LastIndexOf(s, c) ==
  IF s = <<>> THEN 0
  ELSE IF s[Len(s)] = c THEN Len(s)
  ELSE LastIndexOf(SubSeq(s, 1, Len(s) - 1), c)

\* path.extname(file): from the last "." on; empty for no dot or a leading dot only
Extname(file) ==
  LET k == LastIndexOf(file, ".")
  IN  IF k <= 1 THEN <<>> ELSE SubSeq(file, k, Len(file))

LowerChar(c) ==
  CASE c = "A" -> "a"
    [] c = "L" -> "l"
    [] c = "S" -> "s"
    [] OTHER -> c

\* String.prototype.toLowerCase()
ToLowerCase(s) == [i \in 1..Len(s) |-> LowerChar(s[i])]

ALS_EXT == <<".", "a", "l", "s">>

\* a bug: any file at all passes for a Live set
HasAlsFile_anyFile(tree) == \E f \in Files : tree[f] # 0

\* files.some(file => path.extname(file).toLowerCase() === '.als')
HasAlsFile(tree) ==
  \E f \in Files : tree[f] # 0 /\ ToLowerCase(Extname(f)) = ALS_EXT

(* ------------------------- the git repository -------------------------- *)

HexDigits ==
  <<"0", "1", "2", "3", "4", "5", "6", "7", "8", "9", "a", "b", "c", "d", "e", "f">>

\* the identifier git gives the id-th commit it creates: distinct commits get
\* identifiers that differ already in their first digit
Hash(id) == [i \in 1..HashLen |-> HexDigits[((id * (2 * i + 1)) % 16) + 1]]

\* an identifier that names no commit
BogusHash == <<"z", "z">>

HeadContent(d) == IF d.history = <<>> THEN NoContent ELSE d.history[1].content

\* uncommitted changes: some path differs between HEAD, the index and the tree
ChangedFiles(d) ==
  {f \in Files : d.tree[f] # HeadContent(d)[f] \/ d.index[f] # HeadContent(d)[f]}

IsDirty(d) == ChangedFiles(d) # {}

\* one line of `git status --porcelain`: XY, a blank, the path, a newline
StatusLine(d, f) ==
  LET h == HeadContent(d)[f]
      i == d.index[f]
      t == d.tree[f]
      X == IF i = h THEN " " ELSE IF h = 0 THEN "A" ELSE IF i = 0 THEN "D" ELSE "M"
      Y == IF t = i THEN " " ELSE IF t = 0 THEN "D" ELSE "M"
  IN  IF h = i /\ i = t THEN <<>>
      ELSE IF h = 0 /\ i = 0 THEN <<"?", "?", " ">> \o f \o <<"\n">>
      ELSE <<X, Y, " ">> \o f \o <<"\n">>

\* stdout of `git status --porcelain`
StatusStdout(d) == Concat([k \in 1..Len(FileOrder) |-> StatusLine(d, FileOrder[k])])

\* stdout.trim().split('\n').map(line => line.substring(3))
ParseStatus(stdout) ==
  LET lines == Split(Trim(stdout), "\n")
  IN  [k \in 1..Len(lines) |-> DropFirst(lines[k], StatusPrefixLen)]

\* a bug: any status query that succeeds reports changes
checkWorkingDirectoryStatus_alwaysDirty(d, ok) ==
  IF ok THEN [hasChanges |-> TRUE, files |-> ParseStatus(StatusStdout(d))]
        ELSE [hasChanges |-> FALSE, files |-> <<>>]

\* the value checkWorkingDirectoryStatus resolves to; ok: git status exited 0
checkWorkingDirectoryStatus(d, ok) ==
  IF ok /\ Trim(StatusStdout(d)) # <<>>
    THEN [hasChanges |-> TRUE, files |-> ParseStatus(StatusStdout(d))]
    ELSE [hasChanges |-> FALSE, files |-> <<>>]

\* what the shell makes of -m "${message}": a message with an odd number of
\* double quotes leaves a quote open (the command fails), otherwise the quotes
\* pair up and vanish from the argument
ShellBalanced(message) == CountOf(message, "\"") % 2 = 0

ShellArgument(message) == Without(message, "\"")

\* git refuses a commit when the index equals HEAD (or, with no commit yet, is empty)
NothingToCommit(d) == d.index = HeadContent(d)

\* `git checkout <hash> -- .` : every path of the target commit is written to
\* the index and the tree; paths the target does not have are left alone
CheckoutContent(cur, target) == [f \in Files |-> IF target[f] # 0 THEN target[f] ELSE cur[f]]

CommitsNamed(d, hash) == {k \in 1..Len(d.history) : Hash(d.history[k].id) = hash}

(* ------------------------------ messages ------------------------------- *)

InitialCommitMessage == <<"Initial commit">>

\* a bug: the whole identifier instead of its first seven characters
RestoredMessage_wholeHash(commitHash) == <<"Restored to version ">> \o commitHash

RestoredMessage(commitHash) == <<"Restored to version ">> \o Prefix(commitHash, ShortLen)

WipMessage(commitHash) ==
  <<"Work in progress before restoring to ">> \o Prefix(commitHash, ShortLen)

\* the messages a user types into the commit box
UserMessages == {<<"A">>, <<"B", "|", "C">>, <<"D", "\"">>, <<>>, <<" ">>}

(* -------------------------------- state -------------------------------- *)

VARIABLES
  currentProjectPath,  \* ipc-handlers.js: let currentProjectPath
  disk,                \* per folder: .git, appended config, tree, index, history
  reqs,                \* the IPC requests in flight, one record per slot
  nextId,              \* number of the next commit git creates
  ops,                 \* requests invoked so far
  edits,               \* external modifications so far
  fails                \* spontaneous command failures so far

vars == <<currentProjectPath, disk, reqs, nextId, ops, edits, fails>>

\* JavaScript null
NoProject == "null"

\* at most two requests overlap
Reqs == {1, 2}

NoResult == [kind |-> "none", error |-> <<>>, files |-> <<>>, path |-> "", commits |-> <<>>]

\* { success: true }
Success == [NoResult EXCEPT !.kind = "success"]

\* { success: false, error }
Failure(error) == [NoResult EXCEPT !.kind = "failure", !.error = error]

\* the handler returns null
ReturnsNull == [NoResult EXCEPT !.kind = "null"]

\* the handler's promise rejects
Rejects(error) == [NoResult EXCEPT !.kind = "throw", !.error = error]

\* error.message of a failed exec / fs call
ExecError(cmd) == <<"Command failed: ", cmd>>

\* a folder nothing is known about
NoDisk ==
  [gitDir |-> FALSE, config |-> 0, tree |-> NoContent, index |-> NoContent,
   history |-> <<>>]

\* a request: the handler's locals (folderPath, commitHash, message, autoCommit,
\* status), where it stands (pc, caller), what it returned (result), and what it
\* did: the commands it ran (log), the dialog answer it got (response), the
\* project folder as it was when the handler was invoked (atInvoke) and when
\* initializeGitRepository or restoreCommit was entered (before)
Idle ==
  [op |-> "none", pc |-> "idle", folderPath |-> "", commitHash |-> <<>>,
   message |-> <<>>, caller |-> "", autoCommit |-> FALSE, status |-> <<>>,
   result |-> NoResult, log |-> <<>>, response |-> -1, atInvoke |-> NoDisk,
   before |-> NoDisk]

Free(r) == reqs[r].pc \in {"idle", "done"}

InFlight(r) == ~Free(r)

\* a new request takes the lowest free slot
CanInvoke(r) == ops < MaxOps /\ Free(r) /\ \A s \in Reqs : s < r => InFlight(s)

Invoked(op) == [Idle EXCEPT !.op = op]

\* the ways a command can end: it succeeds only if it can; it fails if it
\* cannot, or spontaneously
Outcomes(can) ==
  {ok \in BOOLEAN : (ok => can) /\ (~ok => (~can \/ fails < MaxFailures))}

Failed(can, ok) == IF can /\ ~ok THEN fails + 1 ELSE fails

\* results already returned have been delivered to the renderer
Delivered == [q \in Reqs |-> IF reqs[q].pc = "done" THEN Idle ELSE reqs[q]]

\* slot r takes the new request
Take(r, rec) == [Delivered EXCEPT ![r] = rec]

Returned(rec, result) == [rec EXCEPT !.pc = "done", !.result = result]

\* one external command, as the request's log keeps it: what ran, where the
\* request stood, in which folder, how it ended, and which files had uncommitted
\* changes at that moment
Ran(rec, cmd, d, ok) ==
  [rec EXCEPT !.log = Append(@, [cmd |-> cmd, at |-> rec.pc, cwd |-> rec.folderPath,
                                 ok |-> ok, changed |-> ChangedFiles(d)])]

Init ==
  /\ currentProjectPath = NoProject
  /\ disk = [p \in Folders |-> [NoDisk EXCEPT !.tree = InitialTree(p)]]
  /\ reqs = [r \in Reqs |-> Idle]
  /\ nextId = 1
  /\ ops = 0
  /\ edits = 0
  /\ fails = 0

(* ----------------------- restoreCommit, entered ------------------------ *)

\* restoreCommit(currentProjectPath, commitHash): autoCommit defaults to true;
\* the first await is the status query
EnterRestoreCommit(rec, cur, d) ==
  [rec EXCEPT !.pc = "restoreStatus", !.folderPath = cur, !.autoCommit = TRUE,
              !.before = d[cur]]

(* ---------------------- createCommit and its callers ------------------- *)

\* createCommit(folderPath, message): the first await is `git add .`
EnterCreateCommit(rec, folderPath, message, caller) ==
  [rec EXCEPT !.pc = "add", !.folderPath = folderPath, !.message = message,
              !.caller = caller]

\* a bug: restoreCommit ignores the result of the trailing commit
CreateCommitReturns_trailIgnored(rec, ok, error, cur, d) ==
  CASE rec.caller \in {"init", "version"} ->
         IF ok THEN Returned(rec, [Success EXCEPT !.path =
                                     IF rec.caller = "init" THEN rec.folderPath ELSE ""])
               ELSE Returned(rec, Failure(error))
    [] rec.caller = "wip" ->
         IF ok THEN EnterRestoreCommit(rec, cur, d) ELSE Returned(rec, Failure(error))
    [] rec.caller = "trail" -> Returned(rec, Success)

\* a bug: the restore goes on although the work-in-progress commit failed
CreateCommitReturns_wipIgnored(rec, ok, error, cur, d) ==
  CASE rec.caller \in {"init", "version"} ->
         IF ok THEN Returned(rec, [Success EXCEPT !.path =
                                     IF rec.caller = "init" THEN rec.folderPath ELSE ""])
               ELSE Returned(rec, Failure(error))
    [] rec.caller = "wip" -> EnterRestoreCommit(rec, cur, d)
    [] rec.caller = "trail" ->
         IF ok THEN Returned(rec, Success)
               ELSE Returned(rec, Failure(<<"Restored files but failed to commit: ">> \o error))

\* what the caller does with createCommit's result, up to its next await
\* (cur, d: currentProjectPath and the disk once the command has run)
CreateCommitReturns(rec, ok, error, cur, d) ==
  CASE rec.caller = "init" ->
         \* initializeGitRepository, then the select-folder handler
         IF ok THEN Returned(rec, [Success EXCEPT !.path = rec.folderPath])
               ELSE Returned(rec, Failure(error))
    [] rec.caller = "version" ->
         \* create-version returns commitResult
         IF ok THEN Returned(rec, Success) ELSE Returned(rec, Failure(error))
    [] rec.caller = "wip" ->
         \* restore-commit, "Commit Changes": restore only after the commit
         IF ok THEN EnterRestoreCommit(rec, cur, d)
               ELSE Returned(rec, Failure(error))
    [] rec.caller = "trail" ->
         \* restoreCommit, auto-commit
         IF ok THEN Returned(rec, Success)
               ELSE Returned(rec, Failure(<<"Restored files but failed to commit: ">> \o error))

\* a bug: the folder is stored whether or not initialization succeeded
ProjectAfterCommit_always(rec, ok) ==
  IF rec.caller = "init" THEN rec.folderPath ELSE currentProjectPath

\* select-folder stores the folder once initializeGitRepository succeeded
ProjectAfterCommit(rec, ok) ==
  IF rec.caller = "init" /\ ok THEN rec.folderPath ELSE currentProjectPath

\* git add needs a repository
CanAdd(d) == d.gitDir

\* `git add .`: the index takes the contents of the tree
Staged(d) == [d EXCEPT !.index = d.tree]

\* await execPromise('git add .')
GitAdd(r) ==
  LET rec == reqs[r]
      p == rec.folderPath
  IN  /\ rec.pc = "add"
      /\ \E ok \in Outcomes(CanAdd(disk[p])) :
           /\ fails' = Failed(CanAdd(disk[p]), ok)
           /\ disk' = IF ok THEN [disk EXCEPT ![p] = Staged(@)] ELSE disk
           /\ reqs' = [reqs EXCEPT ![r] =
                 IF ok THEN [Ran(rec, "add", disk[p], ok) EXCEPT !.pc = "commit"]
                 ELSE CreateCommitReturns(Ran(rec, "add", disk[p], ok), FALSE,
                                          ExecError("git add"), currentProjectPath, disk)]
      /\ UNCHANGED <<currentProjectPath, nextId, ops, edits>>

CanCommit(d, message) ==
  /\ d.gitDir
  /\ ~NothingToCommit(d)
  /\ ShellBalanced(message)
  /\ Trim(ShellArgument(message)) # <<>>

\* a bug: the new commit replaces the newest one (as git commit --amend would)
Committed_amend(d, id, message) ==
  [d EXCEPT !.history =
     <<[id |-> id, message |-> ShellArgument(message), content |-> d.index]>>
       \o (IF @ = <<>> THEN <<>> ELSE Tail(@))]

\* `git commit`: a new commit of the index on top of the history
Committed(d, id, message) ==
  [d EXCEPT !.history =
     <<[id |-> id, message |-> ShellArgument(message), content |-> d.index]>> \o @]

\* await execPromise(`git commit -m "${message}"`)
GitCommit(r) ==
  LET rec == reqs[r]
      p == rec.folderPath
  IN  /\ rec.pc = "commit"
      /\ \E ok \in Outcomes(CanCommit(disk[p], rec.message)) :
           /\ fails' = Failed(CanCommit(disk[p], rec.message), ok)
           /\ disk' = IF ok THEN [disk EXCEPT ![p] = Committed(@, nextId, rec.message)]
                            ELSE disk
           /\ nextId' = IF ok THEN nextId + 1 ELSE nextId
           /\ currentProjectPath' = ProjectAfterCommit(rec, ok)
           /\ reqs' = [reqs EXCEPT ![r] =
                 CreateCommitReturns(Ran(rec, "commit", disk[p], ok), ok,
                                     ExecError("git commit"),
                                     currentProjectPath', disk')]
      /\ UNCHANGED <<ops, edits>>

(* ------------------- select-folder, initializeGitRepository ------------ *)

\* ipcMain.handle('select-folder'): await dialog.showOpenDialog; a cancelled
\* dialog returns null, a chosen folder is read next
SelectFolder(r) ==
  /\ CanInvoke(r)
  /\ ops' = ops + 1
  /\ \/ reqs' = Take(r, Returned(Invoked("select-folder"), ReturnsNull))
     \/ \E f \in Folders :
          reqs' = Take(r, [Invoked("select-folder") EXCEPT !.pc = "readdir",
                                                            !.folderPath = f])
  /\ UNCHANGED <<currentProjectPath, disk, nextId, edits, fails>>

\* await fs.readdir(folderPath), then the marker-file test
Readdir(r) ==
  LET rec == reqs[r]
      p == rec.folderPath
  IN  /\ rec.pc = "readdir"
      /\ \E ok \in Outcomes(TRUE) :
           /\ fails' = Failed(TRUE, ok)
           /\ reqs' = [reqs EXCEPT ![r] =
             IF ~ok THEN Returned(rec, Failure(ExecError("readdir")))
             ELSE IF ~HasAlsFile(disk[p].tree)
               THEN Returned(rec, Failure(<<"No .als files found">>))
             ELSE [rec EXCEPT !.pc = "stat"]]
      /\ UNCHANGED <<currentProjectPath, disk, nextId, ops, edits>>

\* a bug: the existing repository goes unnoticed
AlreadyInitialized_never(d) == FALSE

\* a bug: a repository without any commit is set up again
AlreadyInitialized_needsCommit(d) == d.gitDir /\ d.history # <<>>

\* stats.isDirectory() of .git; fs.stat throws exactly when .git does not exist
AlreadyInitialized(d) == d.gitDir

\* initializeGitRepository: await fs.stat(gitDirPath).  An existing .git skips
\* the setup: success, and the handler stores the folder
StatGitDir(r) ==
  LET p == reqs[r].folderPath
      rec == [reqs[r] EXCEPT !.before = disk[p]]
      alreadyInitialized == AlreadyInitialized(disk[p])
  IN  /\ reqs[r].pc = "stat"
      /\ reqs' = [reqs EXCEPT ![r] =
           IF alreadyInitialized
             THEN Returned(Ran(rec, "stat", disk[p], TRUE), [Success EXCEPT !.path = p])
             ELSE [Ran(rec, "stat", disk[p], FALSE) EXCEPT !.pc = "gitInit"]]
      /\ currentProjectPath' = IF alreadyInitialized THEN p ELSE currentProjectPath
      /\ UNCHANGED <<disk, nextId, ops, edits, fails>>

\* the catch of initializeGitRepository: { success: false, error: error.message }
InitFails(rec, cmd, d) == Returned(Ran(rec, cmd, d, FALSE), Failure(ExecError(cmd)))

\* await execPromise('git init')
GitInit(r) ==
  LET rec == reqs[r]
      p == rec.folderPath
  IN  /\ rec.pc = "gitInit"
      /\ \E ok \in Outcomes(TRUE) :
           /\ fails' = Failed(TRUE, ok)
           /\ disk' = IF ok THEN [disk EXCEPT ![p].gitDir = TRUE] ELSE disk
           /\ reqs' = [reqs EXCEPT ![r] =
                 IF ok THEN [Ran(rec, "git init", disk[p], ok) EXCEPT !.pc = "gitignore"]
                 ELSE InitFails(rec, "git init", disk[p])]
      /\ UNCHANGED <<currentProjectPath, nextId, ops, edits>>

\* read text/gitignore.txt, await fs.writeFile(gitignorePath, ...)
WriteGitignore(r) ==
  LET rec == reqs[r]
      p == rec.folderPath
  IN  /\ rec.pc = "gitignore"
      /\ \E ok \in Outcomes(TRUE) :
           /\ fails' = Failed(TRUE, ok)
           /\ disk' = IF ok THEN [disk EXCEPT ![p].tree[GITIGNORE] = 1] ELSE disk
           /\ reqs' = [reqs EXCEPT ![r] =
                 IF ok THEN [Ran(rec, "write .gitignore", disk[p], ok)
                               EXCEPT !.pc = "gitattributes"]
                 ELSE InitFails(rec, "write .gitignore", disk[p])]
      /\ UNCHANGED <<currentProjectPath, nextId, ops, edits>>

\* read text/gitattributes.txt, await fs.writeFile(gitattributesPath, ...)
WriteGitattributes(r) ==
  LET rec == reqs[r]
      p == rec.folderPath
  IN  /\ rec.pc = "gitattributes"
      /\ \E ok \in Outcomes(TRUE) :
           /\ fails' = Failed(TRUE, ok)
           /\ disk' = IF ok THEN [disk EXCEPT ![p].tree[GITATTRIBUTES] = 1] ELSE disk
           /\ reqs' = [reqs EXCEPT ![r] =
                 IF ok THEN [Ran(rec, "write .gitattributes", disk[p], ok)
                               EXCEPT !.pc = "gitconfig"]
                 ELSE InitFails(rec, "write .gitattributes", disk[p])]
      /\ UNCHANGED <<currentProjectPath, nextId, ops, edits>>

\* read text/gitconfig.txt, await fs.appendFile('.git/config', ...), then
\* createCommit(folderPath, 'Initial commit')
AppendGitConfig(r) ==
  LET rec == reqs[r]
      p == rec.folderPath
  IN  /\ rec.pc = "gitconfig"
      /\ \E ok \in Outcomes(disk[p].gitDir) :
           /\ fails' = Failed(disk[p].gitDir, ok)
           /\ disk' = IF ok THEN [disk EXCEPT ![p].config = @ + 1] ELSE disk
           /\ reqs' = [reqs EXCEPT ![r] =
                 IF ok THEN EnterCreateCommit(Ran(rec, "append .git/config", disk[p], ok),
                                              p, InitialCommitMessage, "init")
                 ELSE InitFails(rec, "append .git/config", disk[p])]
      /\ UNCHANGED <<currentProjectPath, nextId, ops, edits>>

(* ------------------------------ create-version ------------------------- *)

\* a bug: the message is tested for emptiness without trimming it
EmptyMessage_untrimmed(commitMessage) == commitMessage = <<>>

\* !commitMessage || commitMessage.trim() === ''
EmptyMessage(commitMessage) == commitMessage = <<>> \/ Trim(commitMessage) = <<>>

\* ipcMain.handle('create-version'): the two checks, then createCommit
CreateVersion(r) ==
  /\ CanInvoke(r)
  /\ ops' = ops + 1
  /\ \E commitMessage \in UserMessages :
       reqs' = Take(r,
         IF currentProjectPath = NoProject
           THEN Returned(Invoked("create-version"), Failure(<<"No project initialized">>))
         ELSE IF EmptyMessage(commitMessage)
           THEN Returned([Invoked("create-version") EXCEPT !.message = commitMessage],
                         Failure(<<"Empty commit message">>))
         ELSE EnterCreateCommit([Invoked("create-version")
                                   EXCEPT !.atInvoke = disk[currentProjectPath]],
                                currentProjectPath, commitMessage, "version"))
  /\ UNCHANGED <<currentProjectPath, disk, nextId, edits, fails>>

(* ------------------------------- get-commits --------------------------- *)

AuthorName == <<"Ann">>
AuthorEmail == <<"ann@studio">>

\* %ad --date=iso of the id-th commit
AuthorDate(id) == <<"2026-01-0", HexDigits[id + 1]>>

\* --pretty=format:"%H|%an|%ae|%ad|%s", one commit
LogLine(c) ==
  Hash(c.id) \o <<"|">> \o AuthorName \o <<"|">> \o AuthorEmail \o <<"|">>
    \o AuthorDate(c.id) \o <<"|">> \o c.message

RECURSIVE JoinLines(_)
JoinLines(lines) ==
  IF lines = <<>> THEN <<>>
  ELSE IF Len(lines) = 1 THEN lines[1]
  ELSE lines[1] \o <<"\n">> \o JoinLines(Tail(lines))

\* a bug: -n is left out, the whole history is printed
LogStdout_unbounded(history, limit) ==
  JoinLines([k \in 1..Len(history) |-> LogLine(history[k])])

\* stdout of git log -n limit: newest first, no trailing newline
LogStdout(history, limit) ==
  LET n == IF Len(history) < limit THEN Len(history) ELSE limit
  IN  JoinLines([k \in 1..n |-> LogLine(history[k])])

\* a destructured field that is missing is undefined
Field(fields, k) == IF k <= Len(fields) THEN fields[k] ELSE <<"undefined">>

\* a bug: the message is taken from the last field of the record
ParseLogLine_lastField(line) ==
  LET fields == Split(line, "|")
  IN  [hash |-> Field(fields, 1), shortHash |-> Prefix(Field(fields, 1), ShortLen),
       author |-> Field(fields, 2), email |-> Field(fields, 3),
       date |-> Field(fields, 4), message |-> fields[Len(fields)]]

\* const [hash, author, email, date, message] = line.split('|')
ParseLogLine(line) ==
  LET fields == Split(line, "|")
  IN  [hash |-> Field(fields, 1), shortHash |-> Prefix(Field(fields, 1), ShortLen),
       author |-> Field(fields, 2), email |-> Field(fields, 3),
       date |-> Field(fields, 4), message |-> Field(fields, 5)]

\* stdout.split('\n').map(...)
ParseLog(stdout) ==
  LET lines == Split(stdout, "\n")
  IN  [k \in 1..Len(lines) |-> ParseLogLine(lines[k])]

\* limit = 50
DefaultLimit == 50

\* the value getCommitHistory resolves to; ok: git log exited 0
getCommitHistory(d, limit, ok) ==
  IF ~ok THEN [Failure(ExecError("git log")) EXCEPT !.commits = <<>>]
  ELSE IF LogStdout(d.history, limit) = <<>> THEN [Success EXCEPT !.commits = <<>>]
  ELSE [Success EXCEPT !.commits = ParseLog(LogStdout(d.history, limit))]

\* a bug: without a project the first folder is listed
GetCommits_noProjectCheck(r) ==
  /\ CanInvoke(r)
  /\ ops' = ops + 1
  /\ reqs' = Take(r, [Invoked("get-commits") EXCEPT !.pc = "log", !.folderPath =
                        IF currentProjectPath = NoProject THEN "p" ELSE currentProjectPath])
  /\ UNCHANGED <<currentProjectPath, disk, nextId, edits, fails>>

\* ipcMain.handle('get-commits')
GetCommits(r) ==
  /\ CanInvoke(r)
  /\ ops' = ops + 1
  /\ reqs' = Take(r,
       IF currentProjectPath = NoProject
         THEN Returned(Invoked("get-commits"),
                       [Failure(<<"No project opened">>) EXCEPT !.commits = <<>>])
         ELSE [Invoked("get-commits") EXCEPT !.pc = "log", !.folderPath = currentProjectPath])
  /\ UNCHANGED <<currentProjectPath, disk, nextId, edits, fails>>

\* git log exits 128 in a folder without repository or without any commit
CanLog(d) == d.gitDir /\ d.history # <<>>

\* await execPromise(`git log ... -n ${limit}`)
GitLog(r) ==
  LET rec == reqs[r]
      p == rec.folderPath
  IN  /\ rec.pc = "log"
      /\ \E ok \in Outcomes(CanLog(disk[p])) :
           /\ fails' = Failed(CanLog(disk[p]), ok)
           /\ reqs' = [reqs EXCEPT ![r] =
                 Returned(Ran(rec, "log", disk[p], ok),
                          getCommitHistory(disk[p], DefaultLimit, ok))]
      /\ UNCHANGED <<currentProjectPath, disk, nextId, ops, edits>>

(* ------------------------------ restore-commit ------------------------- *)

\* module.exports of git-handler.js
Exports ==
  {"initializeGitRepository", "createCommit", "getCommitHistory", "restoreCommit",
   "checkWorkingDirectoryStatus"}

\* the identifiers a caller can pass: any commit made so far, or none at all
KnownHashes == {Hash(id) : id \in 1..(nextId - 1)} \cup {BogusHash}

\* ipcMain.handle('restore-commit'): the project check, then
\* checkWorkingDirectoryStatus(currentProjectPath)
RestoreCommitHandler(r) ==
  /\ CanInvoke(r)
  /\ ops' = ops + 1
  /\ \E commitHash \in KnownHashes :
       reqs' = Take(r,
         IF currentProjectPath = NoProject
           THEN Returned(Invoked("restore-commit"), Failure(<<"No project opened">>))
           ELSE [Invoked("restore-commit") EXCEPT !.pc = "handlerStatus",
                    !.folderPath = currentProjectPath, !.commitHash = commitHash,
                    !.atInvoke = disk[currentProjectPath]])
  /\ UNCHANGED <<currentProjectPath, disk, nextId, edits, fails>>

\* git status needs a repository
CanStatus(d) == d.gitDir

\* the handler's status query: dirty opens the dialog, clean goes on to
\* restoreCommit(currentProjectPath, commitHash)
HandlerStatus(r) ==
  LET rec == reqs[r]
      p == rec.folderPath
  IN  /\ rec.pc = "handlerStatus"
      /\ \E ok \in Outcomes(CanStatus(disk[p])) :
           /\ fails' = Failed(CanStatus(disk[p]), ok)
           /\ LET status == checkWorkingDirectoryStatus(disk[p], ok)
                  ran == Ran(rec, "status", disk[p], ok)
              IN  reqs' = [reqs EXCEPT ![r] =
                    IF status.hasChanges
                      THEN [ran EXCEPT !.pc = "dialog", !.status = status.files]
                      ELSE EnterRestoreCommit(ran, currentProjectPath, disk)]
      /\ UNCHANGED <<currentProjectPath, disk, nextId, ops, edits>>

\* a bug: Cancel does not return and falls into the commit branch
OnResponse_cancelFallsThrough(rec, response, cur) ==
  CASE response \in {0, 2} -> EnterCreateCommit(rec, cur, WipMessage(rec.commitHash), "wip")
    [] response = 1 -> Returned(rec, Rejects(<<"discardChanges is not a function">>))

\* the three branches on changeResult.response: 0 Cancel, 1 Discard Changes,
\* 2 Commit Changes (cur: currentProjectPath).  discardChanges is not among the
\* exports of git-handler.js, so the call of response 1 throws a TypeError out
\* of the handler
OnResponse(rec, response, cur) ==
  CASE response = 0 -> Returned(rec, Failure(<<"Cancelled by user">>))
    [] response = 1 ->
         IF "discardChanges" \in Exports
           THEN [rec EXCEPT !.pc = "discard", !.folderPath = cur]
           ELSE Returned(rec, Rejects(<<"discardChanges is not a function">>))
    [] response = 2 -> EnterCreateCommit(rec, cur, WipMessage(rec.commitHash), "wip")

\* await dialog.showMessageBox({buttons: ['Cancel', 'Discard Changes', 'Commit Changes']})
UncommittedChangesDialog(r) ==
  LET rec == reqs[r]
  IN  /\ rec.pc = "dialog"
      /\ \E response \in {0, 1, 2} :
           reqs' = [reqs EXCEPT ![r] =
             OnResponse([rec EXCEPT !.response = response], response, currentProjectPath)]
      /\ UNCHANGED <<currentProjectPath, disk, nextId, ops, edits, fails>>

\* restoreCommit: const status = await checkWorkingDirectoryStatus(folderPath)
RestoreStatus(r) ==
  LET rec == reqs[r]
      p == rec.folderPath
  IN  /\ rec.pc = "restoreStatus"
      /\ \E ok \in Outcomes(CanStatus(disk[p])) :
           /\ fails' = Failed(CanStatus(disk[p]), ok)
           /\ LET status == checkWorkingDirectoryStatus(disk[p], ok)
                  ran == Ran(rec, "status", disk[p], ok)
              IN  reqs' = [reqs EXCEPT ![r] =
                    IF status.hasChanges
                      THEN Returned(ran,
                             [Failure(<<"You have uncommitted changes. Please commit or discard them first.">>)
                                EXCEPT !.files = status.files])
                      ELSE [ran EXCEPT !.pc = "checkout"]]
      /\ UNCHANGED <<currentProjectPath, disk, nextId, ops, edits>>

\* git checkout needs a repository and a commit of that name in it
CanCheckout(d, commitHash) == d.gitDir /\ CommitsNamed(d, commitHash) # {}

CheckedOut(d, commitHash) ==
  LET k == CHOOSE k \in CommitsNamed(d, commitHash) : TRUE
      target == d.history[k].content
  IN  [d EXCEPT !.tree = CheckoutContent(d.tree, target),
                !.index = CheckoutContent(d.index, target)]

\* what restoreCommit does once the checkout succeeded
AfterCheckout(rec) ==
  IF rec.autoCommit
    THEN EnterCreateCommit(rec, rec.folderPath, RestoredMessage(rec.commitHash), "trail")
    ELSE Returned(rec, Success)

\* a bug: a failed checkout is tried a second time
GitCheckout_retry(r) ==
  LET rec == reqs[r]
      p == rec.folderPath
  IN  /\ rec.pc = "checkout"
      /\ \E ok \in Outcomes(CanCheckout(disk[p], rec.commitHash)) :
           /\ fails' = Failed(CanCheckout(disk[p], rec.commitHash), ok)
           /\ disk' = IF ok THEN [disk EXCEPT ![p] = CheckedOut(@, rec.commitHash)] ELSE disk
           /\ reqs' = [reqs EXCEPT ![r] =
                 IF ok THEN AfterCheckout(Ran(rec, "checkout", disk[p], ok))
                 ELSE IF \A k \in 1..Len(rec.log) : rec.log[k].cmd # "checkout"
                   THEN Ran(rec, "checkout", disk[p], ok)
                 ELSE Returned(Ran(rec, "checkout", disk[p], ok),
                               Failure(ExecError("git checkout")))]
      /\ UNCHANGED <<currentProjectPath, nextId, ops, edits>>

\* await execPromise(`git checkout ${commitHash} -- .`)
GitCheckout(r) ==
  LET rec == reqs[r]
      p == rec.folderPath
  IN  /\ rec.pc = "checkout"
      /\ \E ok \in Outcomes(CanCheckout(disk[p], rec.commitHash)) :
           /\ fails' = Failed(CanCheckout(disk[p], rec.commitHash), ok)
           /\ disk' = IF ok THEN [disk EXCEPT ![p] = CheckedOut(@, rec.commitHash)] ELSE disk
           /\ reqs' = [reqs EXCEPT ![r] =
                 IF ok THEN AfterCheckout(Ran(rec, "checkout", disk[p], ok))
                 ELSE Returned(Ran(rec, "checkout", disk[p], ok),
                               Failure(ExecError("git checkout")))]
      /\ UNCHANGED <<currentProjectPath, nextId, ops, edits>>

\* the sentence of the success dialog about the state of the restored files
UncommittedNotice == "The restored files are uncommitted."

\* detail of the 'Version Restored' dialog the handler shows when
\* restoreResult.success
RestoredDetail(commitHash) ==
  <<"Your project files have been restored to version ">>
    \o Prefix(commitHash, ShortLen)
    \o <<".\n\n", UncommittedNotice,
         " You can:\n- Test the project in Ableton\n- Commit if you want to keep this version\n- Discard to go back to the latest version">>

(* ----------------------------- the environment ------------------------- *)

\* the DAW saves the Live set or records audio into a project folder: the
\* file gets contents it never had
ExternalEdit ==
  /\ edits < MaxEdits
  /\ edits' = edits + 1
  /\ \E p \in Folders, f \in UserFiles :
       /\ HasAlsFile(disk[p].tree)
       /\ disk' = [disk EXCEPT ![p].tree[f] = edits + 2]
  /\ reqs' = Delivered
  /\ UNCHANGED <<currentProjectPath, nextId, ops, fails>>

(* --------------------------- the specification ------------------------- *)

Invoke(r) ==
  \/ SelectFolder(r)
  \/ CreateVersion(r)
  \/ GetCommits(r)
  \/ RestoreCommitHandler(r)

Step(r) ==
  \/ Readdir(r)
  \/ StatGitDir(r)
  \/ GitInit(r)
  \/ WriteGitignore(r)
  \/ WriteGitattributes(r)
  \/ AppendGitConfig(r)
  \/ GitAdd(r)
  \/ GitCommit(r)
  \/ GitLog(r)
  \/ HandlerStatus(r)
  \/ UncommittedChangesDialog(r)
  \/ RestoreStatus(r)
  \/ GitCheckout(r)

Next ==
  \/ \E r \in Reqs : Invoke(r)
  \/ \E r \in Reqs : Step(r)
  \/ ExternalEdit

Spec == Init /\ [][Next]_vars

\* no request is between its invocation and its return
Quiet == \A r \in Reqs : Free(r)

\* the same program under the caller discipline of spec.md section 5: a request
\* is invoked only when none is outstanding, and nothing else writes into the
\* folders while one is
SerialNext ==
  \/ Quiet /\ \E r \in Reqs : Invoke(r)
  \/ \E r \in Reqs : Step(r)
  \/ Quiet /\ ExternalEdit

SerialSpec == Init /\ [][SerialNext]_vars

(* ============================== the claims ============================= *)

(* C1: initializeGitRepository on a folder whose .git directory exists runs no
   git command, writes no file, creates no snapshot and returns success; so
   however often it is called, a history holds at most one 'Initial commit'. *)
C1_InitIdempotent ==
  /\ \A r \in Reqs :
       LET rec == reqs[r]
       IN  (rec.op = "select-folder" /\ rec.log # <<>> /\ rec.before.gitDir) =>
             /\ rec.pc = "done"
             /\ rec.result.kind = "success"
             /\ Len(rec.log) = 1
             /\ rec.log[1].cmd = "stat"
             /\ disk[rec.folderPath] = rec.before
  /\ \A p \in Folders :
       Cardinality({k \in 1..Len(disk[p].history) :
                      disk[p].history[k].message = <<"Initial commit">>}) <= 1

\* initialization was called again on a folder that holds its initial commit
C1_Witness ==
  \E r \in Reqs :
    /\ reqs[r].op = "select-folder"
    /\ reqs[r].pc = "done"
    /\ reqs[r].before.gitDir
    /\ reqs[r].before.history # <<>>
    /\ reqs[r].result.kind = "success"

(* C2: restore, dirty tree, 'discard' chosen: the uncommitted changes are
   reverted and the flow goes on to the checkout, or it ends with a failure
   result if the discard fails. *)
C2_DiscardRevertsChanges ==
  \A r \in Reqs :
    LET rec == reqs[r]
    IN  rec.response = 1 =>
          /\ \E k \in 1..Len(rec.log) : rec.log[k].cmd = "discard"
          /\ rec.pc = "done" => rec.result.kind \in {"success", "failure"}

(* C3: restore, dirty tree, 'cancel' chosen: the flow ends at once with the
   cancelled outcome; no discard, no commit and no checkout ran, and the folder
   (tree, index, history) is what it was when the restore was requested. *)
C3_CancelChangesNothing ==
  \A r \in Reqs :
    LET rec == reqs[r]
    IN  rec.response = 0 =>
          /\ rec.pc = "done"
          /\ rec.result = Failure(<<"Cancelled by user">>)
          /\ \A k \in 1..Len(rec.log) : rec.log[k].cmd = "status"
          /\ disk[rec.folderPath] = rec.atInvoke

\* a restore of a dirty tree was cancelled
C3_Witness ==
  \E r \in Reqs :
    /\ reqs[r].op = "restore-commit"
    /\ reqs[r].response = 0
    /\ reqs[r].pc = "done"
    /\ IsDirty(disk[reqs[r].folderPath])

(* C4: restoreCommit re-checks the status itself: if the tree has uncommitted
   changes at that point, the target is not checked out and restoreCommit
   returns failure. *)
C4_NoCheckoutOfDirtyTree ==
  \A r \in Reqs :
    LET rec == reqs[r]
    IN  \A k \in 1..Len(rec.log) :
          (rec.log[k].at = "restoreStatus" /\ rec.log[k].changed # {}) =>
            /\ \A j \in 1..Len(rec.log) : ~(rec.log[j].cmd = "checkout" /\ rec.log[j].ok)
            /\ rec.pc = "done" => rec.result.kind = "failure"

(* C5: at most one create-version / restore-commit handler is between its
   start and its return for a given project folder. *)
C5_OneOperationAtATime ==
  \A r1, r2 \in Reqs :
    (/\ r1 # r2
     /\ InFlight(r1)
     /\ InFlight(r2)
     /\ reqs[r1].op \in {"create-version", "restore-commit"}
     /\ reqs[r2].op \in {"create-version", "restore-commit"})
      => reqs[r1].folderPath # reqs[r2].folderPath

(* C6: no public operation ends by throwing or by rejecting its promise. *)
C6_NeverThrows == \A r \in Reqs : reqs[r].result.kind # "throw"

(* C7: a failed status query during a restore is never taken for a clean
   tree: the restore ends with a failure and the target is not checked out. *)
C7_StatusFailureStopsRestore ==
  \A r \in Reqs :
    LET rec == reqs[r]
    IN  \A k \in 1..Len(rec.log) :
          (rec.log[k].cmd = "status" /\ ~rec.log[k].ok) =>
            /\ \A j \in 1..Len(rec.log) : ~(rec.log[j].cmd = "checkout" /\ rec.log[j].ok)
            /\ rec.pc = "done" => rec.result.kind = "failure"

\* restoreCommit checked the target out and its trailing createCommit failed
TrailingCommitFailed(rec) ==
  /\ rec.op = "restore-commit"
  /\ rec.pc = "done"
  /\ rec.caller = "trail"
  /\ ~rec.log[Len(rec.log)].ok

(* C8, as claimed: a restore whose trailing commit fails ends 'succeeded'. *)
C8_TrailingFailureIsSuccess ==
  \A r \in Reqs : TrailingCommitFailed(reqs[r]) => reqs[r].result.kind = "success"

(* C8, amended: a restore in auto-commit mode whose checkout succeeded and
   whose trailing commit failed ends with a failure whose error is 'Restored
   files but failed to commit: ' followed by the underlying error; the files
   of the target stay checked out and no snapshot is added. *)
C8_TrailingFailureIsReported ==
  \A r \in Reqs :
    LET rec == reqs[r]
        d == disk[rec.folderPath]
        last == rec.log[Len(rec.log)]
        target == rec.before.history[CHOOSE k \in CommitsNamed(rec.before, rec.commitHash) : TRUE]
    IN  TrailingCommitFailed(rec) =>
          /\ rec.result.kind = "failure"
          /\ rec.result.error =
               <<"Restored files but failed to commit: ", "Command failed: ",
                 IF last.cmd = "add" THEN "git add" ELSE "git commit">>
          /\ \E k \in 1..Len(rec.log) : rec.log[k].cmd = "checkout" /\ rec.log[k].ok
          /\ d.history = rec.before.history
          /\ \A f \in Files : target.content[f] # 0 => d.tree[f] = target.content[f]

\* the trailing commit failed because the checkout changed nothing
C8_Witness ==
  \E r \in Reqs :
    /\ TrailingCommitFailed(reqs[r])
    /\ reqs[r].log[Len(reqs[r].log)].cmd = "commit"
    /\ NothingToCommit(disk[reqs[r].folderPath])

(* C9: when a restore in auto-commit mode returns success, the history is the
   history restoreCommit found with one new snapshot on top, whose message is
   'Restored to version ' and the first 7 characters of the target identifier
   and whose identifier is new, and the tree is clean relative to it. *)
C9_RestoreAddsOneSnapshot ==
  \A r \in Reqs :
    LET rec == reqs[r]
        d == disk[rec.folderPath]
    IN  (/\ rec.op = "restore-commit"
         /\ rec.pc = "done"
         /\ rec.autoCommit
         /\ rec.result.kind = "success") =>
          /\ d.history # <<>>
          /\ Tail(d.history) = rec.before.history
          /\ d.history[1].message = <<"Restored to version ">> \o SubSeq(rec.commitHash, 1, 7)
          /\ \A k \in 1..Len(rec.before.history) :
               rec.before.history[k].id # d.history[1].id
          /\ ~IsDirty(d)

\* a restore to an older snapshot succeeded
C9_Witness ==
  \E r \in Reqs :
    /\ reqs[r].op = "restore-commit"
    /\ reqs[r].pc = "done"
    /\ reqs[r].autoCommit
    /\ reqs[r].result.kind = "success"
    /\ Len(disk[reqs[r].folderPath].history) >= 3

\* the history as get-commits lists it
Listed(d) == getCommitHistory(d, DefaultLimit, TRUE).commits

(* C10: a create-version request with a non-empty message on an open project
   (here: one with changes to commit, in a run where no command failed for an
   outside reason) puts exactly one new snapshot on top of the listed history,
   with exactly that message and an identifier no earlier snapshot has. *)
C10_CreateVersionAddsSnapshot ==
  \A r \in Reqs :
    LET rec == reqs[r]
        before == Listed(rec.atInvoke)
        after == Listed(disk[rec.folderPath])
    IN  (/\ rec.op = "create-version"
         /\ rec.pc = "done"
         /\ rec.log # <<>>
         /\ IsDirty(rec.atInvoke)
         /\ fails = 0) =>
          /\ Len(after) = Len(before) + 1
          /\ Tail(after) = before
          /\ after[1].message = rec.message
          /\ \A k \in 1..Len(before) : before[k].hash # after[1].hash

(* C11: a create-version request whose message is empty or whitespace-only ends
   with a failure before any command ran, and the step that rejects it leaves
   every folder (tree, index, history) as it was; and no caller of createCommit
   ever reaches git add or git commit with such a message. *)
C11_EmptyMessageRejected ==
  /\ [](\A r \in Reqs :
          LET rec == reqs[r]
          IN  /\ (rec.op = "create-version" /\ TrimLeft(rec.message) = <<>>) =>
                   /\ rec.pc = "done"
                   /\ rec.result.kind = "failure"
                   /\ rec.log = <<>>
              /\ rec.pc \in {"add", "commit"} => TrimLeft(rec.message) # <<>>)
  /\ [][\A r \in Reqs :
          (/\ reqs'[r] # reqs[r]
           /\ reqs'[r].op = "create-version"
           /\ TrimLeft(reqs'[r].message) = <<>>) => disk' = disk]_vars

\* a blank message was rejected on an open project that had changes to commit
C11_Witness ==
  \E r \in Reqs :
    /\ reqs[r].op = "create-version"
    /\ reqs[r].message = <<" ">>
    /\ reqs[r].result = Failure(<<"Empty commit message">>)
    /\ currentProjectPath # NoProject
    /\ IsDirty(disk[currentProjectPath])

\* history h is what is left of history g below its newest n entries
IsSuffix(h, g) == Len(h) <= Len(g) /\ SubSeq(g, Len(g) - Len(h) + 1, Len(g)) = h

(* C12: snapshots are immutable and never deleted: in every step of every
   operation, whatever the interleaving, the history of each folder before the
   step is a suffix of its newest-first history after the step. *)
C12_HistoryOnlyGrowsAtHead ==
  [][\A p \in Folders : IsSuffix(disk[p].history, disk'[p].history)]_vars

\* a restore checked its target out over a history of three or more snapshots
C12_Witness ==
  \E r \in Reqs :
    /\ reqs[r].op = "restore-commit"
    /\ \E k \in 1..Len(reqs[r].log) : reqs[r].log[k].cmd = "checkout" /\ reqs[r].log[k].ok
    /\ Len(disk[reqs[r].folderPath].history) >= 3
    /\ IsSuffix(reqs[r].atInvoke.history, disk[reqs[r].folderPath].history)

\* initializeGitRepository ran the whole setup and its initial commit failed
InitialCommitFailed(rec) ==
  /\ rec.op = "select-folder"
  /\ rec.pc = "done"
  /\ rec.caller = "init"
  /\ ~rec.log[Len(rec.log)].ok

(* C13: when initialization fails at the initial commit, the result is a
   failure while .git, .gitignore, .gitattributes and the appended filter
   configuration stay on disk; and a later initialization of a folder left in
   that state (repository present, no commit) runs none of the setup steps. *)
C13_FailedInitialCommitKeepsRepository ==
  \A r \in Reqs :
    LET rec == reqs[r]
        d == disk[rec.folderPath]
    IN  /\ InitialCommitFailed(rec) =>
             /\ rec.result.kind = "failure"
             /\ d.gitDir
             /\ d.tree[GITIGNORE] # 0
             /\ d.tree[GITATTRIBUTES] # 0
             /\ d.config = rec.before.config + 1
             /\ d.history = <<>>
        /\ (/\ rec.op = "select-folder"
            /\ rec.log # <<>>
            /\ rec.before.gitDir
            /\ rec.before.history = <<>>) =>
             /\ \A k \in 1..Len(rec.log) :
                  rec.log[k].cmd \notin {"git init", "write .gitignore",
                                         "write .gitattributes", "append .git/config"}
             /\ d.config = rec.before.config
             /\ d.tree = rec.before.tree

\* a folder whose initial commit had failed was selected again
C13_Witness ==
  \E r \in Reqs :
    /\ reqs[r].op = "select-folder"
    /\ reqs[r].pc = "done"
    /\ reqs[r].before.gitDir
    /\ reqs[r].before.config = 1
    /\ reqs[r].before.history = <<>>
    /\ disk[reqs[r].folderPath].history = <<>>

(* C14: listing the snapshots of a repository that has no commit returns
   success with an empty sequence. *)
C14_EmptyHistoryListsEmpty ==
  \A r \in Reqs :
    LET rec == reqs[r]
    IN  (/\ rec.op = "get-commits"
         /\ rec.pc = "done"
         /\ rec.log # <<>>
         /\ disk[rec.folderPath].gitDir
         /\ disk[rec.folderPath].history = <<>>) =>
          /\ rec.result.kind = "success"
          /\ rec.result.commits = <<>>

\* folder p holds a file whose name ends in .als, in whatever case
HoldsMarkerFile(p) ==
  \E f \in Files :
    /\ disk[p].tree[f] # 0
    /\ Len(f) > 4
    /\ SubSeq(f, Len(f) - 3, Len(f)) \in
         {<<".", a, l, z>> : a \in {"a", "A"}, l \in {"l", "L"}, z \in {"s", "S"}}

(* C15: initialization is only started for a folder that holds a .als file:
   a select-folder request for a folder without one runs no initialization
   step and ends with a failure, and no step of it creates .git or a template
   file there or changes the current project. *)
C15_NoInitWithoutMarkerFile ==
  /\ [](\A r \in Reqs :
          LET rec == reqs[r]
          IN  (rec.op = "select-folder" /\ rec.folderPath \in Folders
                 /\ ~HoldsMarkerFile(rec.folderPath)) =>
                /\ rec.log = <<>>
                /\ rec.pc \in {"readdir", "done"}
                /\ rec.pc = "done" => rec.result.kind = "failure"
                /\ disk[rec.folderPath] = [NoDisk EXCEPT !.tree = disk[rec.folderPath].tree]
                /\ \A f \in {GITIGNORE, GITATTRIBUTES} : disk[rec.folderPath].tree[f] = 0)
  /\ [][\A r \in Reqs :
          (/\ reqs'[r] # reqs[r]
           /\ reqs'[r].op = "select-folder"
           /\ reqs'[r].folderPath \in Folders
           /\ ~HoldsMarkerFile(reqs'[r].folderPath)) =>
            /\ currentProjectPath' = currentProjectPath
            /\ disk' = disk]_vars

\* with a project open, a folder of audio files only was selected and refused
C15_Witness ==
  \E r \in Reqs :
    /\ reqs[r].op = "select-folder"
    /\ reqs[r].folderPath = "x"
    /\ reqs[r].result = Failure(<<"No .als files found">>)
    /\ currentProjectPath \in Folders
    /\ ~disk["x"].gitDir

(* C16: a restore requested on a clean tree skips the decision: no dialog is
   shown, no discard and no commit precedes the checkout; the commands run are
   the two status queries and then, directly, the checkout. *)
C16_CleanRestoreSkipsDecision ==
  \A r \in Reqs :
    LET rec == reqs[r]
    IN  (/\ rec.op = "restore-commit"
         /\ rec.folderPath \in Folders
         /\ ~IsDirty(rec.atInvoke)) =>
          /\ rec.pc # "dialog"
          /\ rec.response = -1
          /\ rec.caller # "wip"
          /\ \A k \in 1..Len(rec.log) :
               /\ rec.log[k].cmd # "discard"
               /\ k <= 2 => rec.log[k].cmd = "status"
               /\ k = 3 => rec.log[k].cmd = "checkout"
          /\ rec.pc = "done" => Len(rec.log) >= 3

\* a restore on a clean tree reached its checkout
C16_Witness ==
  \E r \in Reqs :
    /\ reqs[r].op = "restore-commit"
    /\ reqs[r].folderPath \in Folders
    /\ ~IsDirty(reqs[r].atInvoke)
    /\ Len(reqs[r].log) = 3
    /\ reqs[r].log[3].cmd = "checkout"
    /\ reqs[r].log[3].ok
    /\ reqs[r].response = -1

(* C17: restore, dirty tree, 'commit' chosen: the first commands after the
   status query are git add and git commit of a snapshot whose message is
   'Work in progress before restoring to ' and the first 7 characters of the
   target identifier; a checkout runs only after both succeeded, and if either
   fails the request ends there with a failure. *)
C17_CommitBeforeCheckout ==
  \A r \in Reqs :
    LET rec == reqs[r]
        h == rec.commitHash
        short == SubSeq(h, 1, IF Len(h) < 7 THEN Len(h) ELSE 7)
    IN  rec.response = 2 =>
          /\ \A j \in 1..Len(rec.log) :
               rec.log[j].cmd = "checkout" =>
                 /\ j > 3
                 /\ rec.log[2].cmd = "add" /\ rec.log[2].ok
                 /\ rec.log[3].cmd = "commit" /\ rec.log[3].ok
                 /\ Len(rec.before.history) = Len(rec.atInvoke.history) + 1
                 /\ rec.before.history[1].message =
                      <<"Work in progress before restoring to ">> \o short
          /\ \A k \in {2, 3} :
               (k <= Len(rec.log) /\ ~rec.log[k].ok) =>
                 /\ rec.pc = "done"
                 /\ rec.result.kind = "failure"
                 /\ Len(rec.log) = k
                 /\ disk[rec.folderPath].history = rec.atInvoke.history

\* 'commit' was chosen and the restore went through
C17_Witness ==
  \E r \in Reqs :
    /\ reqs[r].response = 2
    /\ reqs[r].pc = "done"
    /\ reqs[r].result.kind = "success"
    /\ \E j \in 1..Len(reqs[r].log) : reqs[r].log[j].cmd = "checkout" /\ reqs[r].log[j].ok

\* the positions of the log at which command cmd ran
RunsOf(log, cmd) == {k \in 1..Len(log) : log[k].cmd = cmd}

(* C18: nothing is retried: one restore request runs the checkout at most once,
   at most one commit before it (work in progress) and at most one after it
   (the trailing commit); a checkout, git add or git commit that fails is the
   request's last command and ends it with a failure. *)
C18_NoRetries ==
  \A r \in Reqs :
    LET rec == reqs[r]
        log == rec.log
        checkouts == RunsOf(log, "checkout")
    IN  rec.op = "restore-commit" =>
          /\ Cardinality(checkouts) <= 1
          /\ \A cmd \in {"add", "commit"} :
               /\ Cardinality(RunsOf(log, cmd)) <= 2
               /\ \A c \in checkouts :
                    /\ Cardinality({k \in RunsOf(log, cmd) : k < c}) <= 1
                    /\ Cardinality({k \in RunsOf(log, cmd) : k > c}) <= 1
               /\ checkouts = {} => Cardinality(RunsOf(log, cmd)) <= 1
          /\ \A k \in 1..Len(log) :
               (log[k].cmd \in {"checkout", "add", "commit"} /\ ~log[k].ok) =>
                 /\ k = Len(log)
                 /\ rec.pc = "done"
                 /\ rec.result.kind = "failure"
                 /\ rec.result.error # <<>>

\* a checkout failed: the identifier named no commit
C18_Witness ==
  \E r \in Reqs :
    /\ reqs[r].op = "restore-commit"
    /\ reqs[r].pc = "done"
    /\ reqs[r].commitHash = BogusHash
    /\ reqs[r].log # <<>>
    /\ reqs[r].log[Len(reqs[r].log)].cmd = "checkout"
    /\ ~reqs[r].log[Len(reqs[r].log)].ok

\* the success dialog tells the user that the restored files are uncommitted
SaysUncommitted(commitHash) ==
  \E k \in 1..Len(RestoredDetail(commitHash)) :
    RestoredDetail(commitHash)[k] = UncommittedNotice

(* C19: when the restore-commit handler reports success and tells the user that
   the restored files are uncommitted, the restore ran without auto-commit: no
   snapshot was created (the history is the one restoreCommit found) and the
   files of the target are in the tree, not committed on top. *)
C19_UncommittedReportMatchesMode ==
  \A r \in Reqs :
    LET rec == reqs[r]
        d == disk[rec.folderPath]
    IN  (/\ rec.op = "restore-commit"
         /\ rec.pc = "done"
         /\ rec.result.kind = "success"
         /\ SaysUncommitted(rec.commitHash)) =>
          /\ ~rec.autoCommit
          /\ d.history = rec.before.history

\* the limits getCommitHistory is asked with
Limits == 0..MaxLimit \cup {DefaultLimit}

(* C20: when a get-commits request returns success on a history of n
   snapshots, getCommitHistory on that history with any limit returns exactly
   the min(n, limit) newest snapshots, newest first; and what the request
   returned is that list for the limit 50. *)
C20_NewestFirstWithinLimit ==
  \A r \in Reqs :
    LET rec == reqs[r]
    IN  (rec.op = "get-commits" /\ rec.pc = "done" /\ rec.result.kind = "success") =>
          LET history == disk[rec.folderPath].history
              n == Len(history)
          IN  /\ n >= 1
              /\ \A limit \in Limits :
                   LET commits == getCommitHistory(disk[rec.folderPath], limit, TRUE).commits
                   IN  /\ Len(commits) = (IF n < limit THEN n ELSE limit)
                       /\ \A k \in 1..Len(commits) :
                            /\ commits[k].hash = Hash(history[k].id)
                            /\ commits[k].shortHash = SubSeq(Hash(history[k].id), 1, 7)
                            /\ commits[k].date = AuthorDate(history[k].id)
                       /\ limit = 50 => rec.result.commits = commits

\* get-commits listed a history of three snapshots, more than the small limits
C20_Witness ==
  \E r \in Reqs :
    /\ reqs[r].op = "get-commits"
    /\ reqs[r].pc = "done"
    /\ reqs[r].result.kind = "success"
    /\ Len(reqs[r].result.commits) = 3
    /\ Len(getCommitHistory(disk[reqs[r].folderPath], 2, TRUE).commits) = 2

\* the positions of '|' in a message
Bars(message) == {i \in 1..Len(message) : message[i] = "|"}

\* the part of a message before its first '|' (the whole of it if it has none)
BeforeFirstBar(message) ==
  IF Bars(message) = {} THEN message
  ELSE SubSeq(message, 1, (CHOOSE i \in Bars(message) : \A j \in Bars(message) : i <= j) - 1)

(* C21: in a listing that get-commits returns, every record carries the five
   fields of its snapshot: the identifier, its first 7 characters as shortHash,
   author, email, date, and as message the committed message if that holds no
   '|', otherwise only the part before its first '|'. *)
C21_FiveFieldsSplitOnBar ==
  \A r \in Reqs :
    LET rec == reqs[r]
        history == disk[rec.folderPath].history
        commits == rec.result.commits
    IN  (rec.op = "get-commits" /\ rec.pc = "done" /\ rec.result.kind = "success") =>
          /\ Len(commits) = Len(history)
          /\ \A k \in 1..Len(commits) :
               /\ DOMAIN commits[k] = {"hash", "shortHash", "author", "email", "date", "message"}
               /\ commits[k].hash = Hash(history[k].id)
               /\ commits[k].shortHash = SubSeq(commits[k].hash, 1, 7)
               /\ commits[k].author = AuthorName
               /\ commits[k].email = AuthorEmail
               /\ commits[k].date = AuthorDate(history[k].id)
               /\ commits[k].message = BeforeFirstBar(history[k].message)

\* a listing holds a snapshot whose message contains '|'
C21_Witness ==
  \E r \in Reqs :
    /\ reqs[r].op = "get-commits"
    /\ reqs[r].pc = "done"
    /\ reqs[r].result.kind = "success"
    /\ \E k \in 1..Len(disk[reqs[r].folderPath].history) :
         /\ disk[reqs[r].folderPath].history[k].message = <<"B", "|", "C">>
         /\ reqs[r].result.commits[k].message = <<"B">>

\* the channels that need an open project
ProjectChannels == {"create-version", "get-commits", "restore-commit"}

(* C22: create-version, get-commits and restore-commit requested while no
   project is open end at once with a failure: the request has run no command,
   and the step that takes it changes neither a folder nor the current project
   nor the commit counter. *)
C22_NoProjectNoEffect ==
  [][(ops' = ops + 1 /\ currentProjectPath = NoProject) =>
       \A r \in Reqs :
         (Free(r) /\ reqs'[r].pc # "idle" /\ reqs'[r].op \in ProjectChannels) =>
           /\ reqs'[r].pc = "done"
           /\ reqs'[r].result.kind = "failure"
           /\ reqs'[r].result.error \in {<<"No project initialized">>, <<"No project opened">>}
           /\ reqs'[r].log = <<>>
           /\ disk' = disk
           /\ currentProjectPath' = NoProject
           /\ nextId' = nextId]_vars

\* a restore was requested and refused while no project was open, although a
\* repository exists on disk
C22_Witness ==
  \E r \in Reqs :
    /\ reqs[r].op = "restore-commit"
    /\ reqs[r].result = Failure(<<"No project opened">>)
    /\ currentProjectPath = NoProject
    /\ \E p \in Folders : disk[p].gitDir

(* C23: all commands of one restore request run in the same folder: the one
   that was current when the request started (the folder of its first status
   query), whatever select-folder does meanwhile. *)
C23_RestoreStaysInOneFolder ==
  \A r \in Reqs :
    LET rec == reqs[r]
    IN  rec.op = "restore-commit" =>
          \A k \in 1..Len(rec.log) : rec.log[k].cwd = rec.log[1].cwd

(* C24: whenever a select-folder request returns success (initialization
   succeeded and the folder became the current project), the folder has .git,
   .gitignore, .gitattributes, the filter configuration appended to its config,
   and at least one snapshot. *)
C24_SuccessMeansProvisioned ==
  \A r \in Reqs :
    LET rec == reqs[r]
        d == disk[rec.folderPath]
    IN  (rec.op = "select-folder" /\ rec.pc = "done" /\ rec.result.kind = "success") =>
          /\ d.gitDir
          /\ d.tree[GITIGNORE] # 0
          /\ d.tree[GITATTRIBUTES] # 0
          /\ d.config >= 1
          /\ d.history # <<>>

\* the step ends select-folder request r with the given kind of result (the
\* request was suspended before the step, or the step invoked it)
SelectFolderEnds(r, kinds) ==
  /\ reqs'[r].op = "select-folder"
  /\ reqs'[r].pc = "done"
  /\ reqs[r].pc # "done" \/ ops' = ops + 1
  /\ reqs'[r].result.kind \in kinds

(* C25: currentProjectPath changes only in a step that ends a select-folder
   request with success, for a folder that holds the marker file, and it
   becomes exactly that folder; a select-folder request that ends in any other
   way (cancelled dialog, no marker file, read error, failed initialization)
   leaves it as it was, and every step that ends one with success sets it. *)
C25_ProjectPathFrame ==
  [][
      /\ currentProjectPath' # currentProjectPath =>
           \E r \in Reqs :
             /\ SelectFolderEnds(r, {"success"})
             /\ reqs'[r].folderPath = currentProjectPath'
             /\ reqs'[r].result.path = currentProjectPath'
             /\ HoldsMarkerFile(currentProjectPath')
      /\ \A s \in Reqs :
           /\ SelectFolderEnds(s, {"failure", "null", "throw"}) =>
                currentProjectPath' = currentProjectPath
           /\ SelectFolderEnds(s, {"success"}) =>
                currentProjectPath' = reqs'[s].folderPath
    ]_vars

\* with project p open, the initialization of another folder failed and p
\* stayed current
C25_Witness ==
  \E r \in Reqs :
    /\ reqs[r].op = "select-folder"
    /\ reqs[r].pc = "done"
    /\ reqs[r].result.kind = "failure"
    /\ reqs[r].log # <<>>
    /\ currentProjectPath \in Folders
    /\ currentProjectPath # reqs[r].folderPath

====
